---- MODULE Spec2Model ----
(***************************************************************************)
(* The `next` command of the mob session tool (src/src/cmd/next.rs): the   *)
(* session state machine it drives and the break/lunch schedule functions  *)
(* is_break_time and is_lunch_time.                                        *)
(*                                                                         *)
(* Times are whole seconds: a NaiveTime is the number of seconds since     *)
(* midnight (0 .. 86399), a DateTime<Utc> is a number of seconds since an  *)
(* arbitrary origin, a chrono Duration is a signed number of seconds.      *)
(* Strings that the code parses are sequences of one-character strings.    *)
(***************************************************************************)
EXTENDS Integers, Sequences, FiniteSets, TLC

VARIABLES
    store,      \* the persisted session (session::Store), one record
    pc,         \* per checkout: the position of its running `next` command
    frame,      \* per checkout: the locals of Next::run / Next::next / take_break
    calls,      \* per checkout: the collaborator calls and evaluations made, in order
    result,     \* per checkout: None while running, then Some("Ok") or Some("Err")
    prev,       \* what is remembered of the command that ran last (see PrevOf)
    args,       \* schedule evaluation alone: the arguments of the call
    out         \* schedule evaluation alone: None before the call, Some(value) after

vars == <<store, pc, frame, calls, result, prev, args, out>>

-----------------------------------------------------------------------------
(* Option and Result values *)

None == <<>>
Some(x) == <<x>>
IsSome(o) == Len(o) = 1
Unwrap(o) == o[1]

Ok(v) == [ok |-> TRUE, val |-> v]
Err == [ok |-> FALSE]

-----------------------------------------------------------------------------
(* chrono arithmetic used by the schedule functions *)

SecsPerDay == 24 * 60 * 60

\* Duration::minutes(m)
Minutes(m) == m * 60

\* i64 division by two, truncating toward zero (work_duration / 2 on integers)
HalfI64(n) == IF n >= 0 THEN n \div 2 ELSE -((-n) \div 2)

\* Duration / 2: a Duration of whole minutes halves to whole seconds exactly
HalfDuration(d) == IF d >= 0 THEN d \div 2 ELSE -((-d) \div 2)

\* NaiveTime + Duration and NaiveTime - Duration wrap around midnight
TimeAdd(t, d) == (t + d) % SecsPerDay
TimeSub(t, d) == (t - d) % SecsPerDay

\* NaiveTime - NaiveTime: the signed duration between two times of day
TimeDiff(a, b) == a - b

DigitVal(c) ==
    CASE c = "0" -> 0 [] c = "1" -> 1 [] c = "2" -> 2 [] c = "3" -> 3
      [] c = "4" -> 4 [] c = "5" -> 5 [] c = "6" -> 6 [] c = "7" -> 7
      [] c = "8" -> 8 [] c = "9" -> 9 [] OTHER -> -1

IsDigitAt(s, i) == i <= Len(s) /\ DigitVal(s[i]) >= 0

\* A numeric item of the format (%H, %M): one or two digits, read greedily from i
ScanNumber(s, i) ==
    IF ~IsDigitAt(s, i) THEN [ok |-> FALSE, val |-> 0, next |-> i]
    ELSE IF IsDigitAt(s, i + 1)
         THEN [ok |-> TRUE, val |-> DigitVal(s[i]) * 10 + DigitVal(s[i + 1]), next |-> i + 2]
         ELSE [ok |-> TRUE, val |-> DigitVal(s[i]), next |-> i + 1]

\* NaiveTime::parse_from_str(s, "%H:%M"): Ok(seconds since midnight) or Err
ParseTime(s) ==
    LET h == ScanNumber(s, 1) IN
    IF ~h.ok \/ h.next > Len(s) \/ s[h.next] # ":" THEN Err
    ELSE LET m == ScanNumber(s, h.next + 1) IN
         IF ~m.ok \/ m.next <= Len(s) \/ h.val > 23 \/ m.val > 59 THEN Err
         ELSE Ok(h.val * 3600 + m.val * 60)

-----------------------------------------------------------------------------
(* The schedule functions *)

\* Faulty variant: the comparison admits the boundary
is_break_time_inclusive(now, last_break, break_interval, break_duration, work_duration) ==
    LET duration_since_last == now - last_break IN
    IF duration_since_last >= Minutes(break_interval) + Minutes(HalfI64(work_duration))
    THEN Some(Minutes(break_duration))
    ELSE None

is_break_time(now, last_break, break_interval, break_duration, work_duration) ==
    LET duration_since_last == now - last_break IN
    IF duration_since_last > Minutes(break_interval) + Minutes(HalfI64(work_duration))
    THEN Some(Minutes(break_duration))
    ELSE None

\* Faulty variant: the lunch duration is normalised across midnight
is_lunch_time_normalised(now, work_duration, lunch_start, lunch_end) ==
    LET ls == ParseTime(lunch_start) IN
    IF ~ls.ok THEN Err
    ELSE LET le == ParseTime(lunch_end) IN
         IF ~le.ok THEN Err
         ELSE LET wd == Minutes(work_duration)
                  lunch_duration == TimeDiff(le.val, ls.val) % SecsPerDay
                  start_nagging == TimeSub(ls.val, HalfDuration(wd))
                  end_nagging == TimeAdd(ls.val, wd)
              IN  IF now >= start_nagging /\ now < end_nagging
                  THEN Ok(Some(lunch_duration))
                  ELSE Ok(None)

\* Faulty variant: a time that does not parse counts as "no lunch today"
is_lunch_time_lenient(now, work_duration, lunch_start, lunch_end) ==
    LET ls == ParseTime(lunch_start)
        le == ParseTime(lunch_end)
    IN  IF ~ls.ok \/ ~le.ok THEN Ok(None)
        ELSE LET wd == Minutes(work_duration)
                 lunch_duration == TimeDiff(le.val, ls.val)
                 start_nagging == TimeSub(ls.val, HalfDuration(wd))
                 end_nagging == TimeAdd(ls.val, wd)
             IN  IF now >= start_nagging /\ now < end_nagging
                 THEN Ok(Some(lunch_duration))
                 ELSE Ok(None)

is_lunch_time(now, work_duration, lunch_start, lunch_end) ==
    LET ls == ParseTime(lunch_start) IN
    IF ~ls.ok THEN Err
    ELSE LET le == ParseTime(lunch_end) IN
         IF ~le.ok THEN Err
         ELSE LET wd == Minutes(work_duration)
                  lunch_duration == TimeDiff(le.val, ls.val)
                  start_nagging == TimeSub(ls.val, HalfDuration(wd))
                  end_nagging == TimeAdd(ls.val, wd)
              IN  IF now >= start_nagging /\ now < end_nagging
                  THEN Ok(Some(lunch_duration))
                  ELSE Ok(None)

-----------------------------------------------------------------------------
(* Sessions *)

Users == {"alice", "bob", "carol"}

\* The checkouts from which commands are run
Procs == {"c1", "c2"}

Stopped == [tag |-> "Stopped"]
Working(d) == [tag |-> "Working", driver |-> d]
Break(n) == [tag |-> "Break", next |-> n]
WaitingForNext(n) == [tag |-> "WaitingForNext", next |-> n]

\* config.remote
ConfigRemote == "origin"

BranchChoices ==
    { [branch |-> "mob-session", base_branch |-> "master"],
      [branch |-> "feature-x", base_branch |-> "develop"] }

\* The scheduling settings a session can be started with
ConfigSettings ==
    { [work_duration |-> 10, break_interval |-> 55, break_duration |-> 10,
       lunch_start |-> <<"1", "1", ":", "3", "0">>,
       lunch_end |-> <<"1", "2", ":", "3", "0">>,
       commit_message |-> "mob next [skip ci]"],
      [work_duration |-> 9, break_interval |-> 1, break_duration |-> 5,
       lunch_start |-> <<"2", "3", ":", "0", "0">>,
       lunch_end |-> <<"0", "0", ":", "3", "0">>,
       commit_message |-> "wip"],
      [work_duration |-> 10, break_interval |-> 55, break_duration |-> 10,
       lunch_start |-> <<"2", "5", ":", "9", "9">>,
       lunch_end |-> <<"1", "2", ":", "3", "0">>,
       commit_message |-> "wip"],
      [work_duration |-> 10, break_interval |-> 55, break_duration |-> 10,
       lunch_start |-> <<"1", "1", ":", "3", "0">>,
       lunch_end |-> <<"1", "2", ":", "6", "0">>,
       commit_message |-> "wip"] }

\* Readings of Local::now().time(): 11:26:00, 11:35:00, 23:05:00, 03:00:00
LocalTimes == {41160, 41700, 83100, 10800}

\* Readings of Utc::now(), and the values last_break can hold
UtcInstants == {3200, 3600, 3601}
LastBreaks == {0, 3000}

\* What store.load() returns when nothing is persisted
StoppedSession ==
    [state |-> Stopped, drivers |-> <<>>,
     branches |-> [branch |-> "", base_branch |-> ""],
     last_break |-> 0, settings |-> None]

Contains(seq, x) == \E i \in 1..Len(seq) : seq[i] = x

IndexOf(seq, x) == CHOOSE i \in 1..Len(seq) : seq[i] = x

\* The roster with the user appended when absent
WithDriver(drivers, user) ==
    IF Contains(drivers, user) THEN drivers ELSE Append(drivers, user)

\* drivers.next(user): the entry after user, wrapping; None with fewer than 2 entries
DriversNext(drivers, user) ==
    LET all == WithDriver(drivers, user) IN
    IF Len(all) < 2 THEN None
    ELSE Some(all[(IndexOf(all, user) % Len(all)) + 1])

-----------------------------------------------------------------------------
(* Next::run and Next::next, one step per collaborator call *)

\* One entry of a command's record of calls: what was called, with what, and
\* what came back
Call(op, arg, ret) == [op |-> op, arg |-> arg, ret |-> ret]

\* The texts of the two confirmations
LunchText == "It's lunch time. Go for lunch?"
BreakText == "Take a break?"

IdleFrame ==
    [cmd |-> "", me |-> "", session |-> None, next_driver |-> None,
     is_lunch |-> None, should_break |-> None, brk |-> None]

\* Faulty variant: the driver is not compared with the acting user
IsMyTurnAnyDriver(state, me) == state.tag = "Working"

\* The arm of the match in Next::run that calls self.next(session)
IsMyTurn(state, me) == state.tag = "Working" /\ state.driver = me

\* Faulty variant: the error of a version-control call is dropped
GitOutcomeIgnored(ok, cont) == [pc |-> cont, result |-> None]

\* self.git...()? : continue on Ok, return the error on Err
GitOutcome(ok, cont) ==
    IF ok THEN [pc |-> cont, result |-> None]
    ELSE [pc |-> "returned", result |-> Some("Err")]

\* Faulty variant: the push names the base branch
GitCommandsBaseBranch(session, remote) ==
    << <<"add", "--all">>,
       <<"commit", "--message", Unwrap(session.settings).commit_message, "--no-verify">>,
       <<"push", "--no-verify", remote, session.branches.base_branch>> >>

\* The argument vectors of the three git.run calls, in the order they are made
GitCommands(session, remote) ==
    << <<"add", "--all">>,
       <<"commit", "--message", Unwrap(session.settings).commit_message, "--no-verify">>,
       <<"push", "--no-verify", remote, session.branches.branch>> >>

\* Faulty variant: the break state forgets who is next
BreakSessionNoNext(session, next_driver) ==
    [session EXCEPT !.state = Break(None)]

\* Faulty variant: the Break session is built anew, without the settings
BreakSessionNoSettings(session, next_driver) ==
    [session EXCEPT !.state = Break(next_driver), !.settings = None]

\* Session { state: State::Break { next }, ..session }
BreakSession(session, next_driver) ==
    [session EXCEPT !.state = Break(next_driver)]

\* Faulty variant: the rotation is stored by moving the head of the roster to
\* its end
WaitingSessionRotated(session, next_driver) ==
    [session EXCEPT !.state = WaitingForNext(next_driver),
                    !.drivers = IF Len(@) >= 2 THEN Append(Tail(@), Head(@)) ELSE @]

\* Faulty variant: the session is saved as it was loaded, still Working
WaitingSessionStillWorking(session, next_driver) ==
    session

\* Session { state: State::WaitingForNext { next }, ..session }
WaitingSession(session, next_driver) ==
    [session EXCEPT !.state = WaitingForNext(next_driver)]

\* Faulty variant: a declined lunch ends take_break with no break
LunchAnswerDeclineEnds(take_lunch, duration) ==
    [pc |-> "save", brk |-> IF take_lunch THEN Some(<<"Lunch", duration>>) ELSE None]

\* Faulty variant: an accepted lunch falls through to the break check
LunchAnswerFallsThrough(take_lunch, duration) ==
    [pc |-> "is_break_time", brk |-> None]

\* if take_lunch { return Ok(Some(("Lunch", duration))) }
LunchAnswer(take_lunch, duration) ==
    IF take_lunch THEN [pc |-> "save", brk |-> Some(<<"Lunch", duration>>)]
    ELSE [pc |-> "is_break_time", brk |-> None]

\* if take_break { return Ok(Some(("Break", duration))) }; return Ok(None)
BreakAnswer(take_break, duration) ==
    IF take_break THEN Some(<<"Break", duration>>) ELSE None

\* next_driver_name
\* Faulty variant: the head of the roster is taken, whoever is driving
ComputeNextDriverHead(session, name) ==
    IF Len(session.drivers) >= 1 THEN Some(session.drivers[1]) ELSE None

\* let next_driver = session.drivers.next(&self.config.name)
ComputeNextDriver(session, name) ==
    DriversNext(session.drivers, name)

NextDriverName(next_driver) ==
    IF IsSome(next_driver) THEN Unwrap(next_driver) ELSE "anyone!"

TimerTitle(break_type, next_driver) ==
    <<break_type, ", next driver ", NextDriverName(next_driver)>>

\* Faulty variant: the completion message says "Break" whatever was accepted
TimerMessageAlwaysBreak(break_type, next_driver) ==
    <<"Break", " over. ", NextDriverName(next_driver), " turn">>

\* format!("{} over. {} turn", break_type, next_driver_name)
TimerMessage(break_type, next_driver) ==
    <<break_type, " over. ", NextDriverName(next_driver), " turn">>

\* No other command is running (one command runs to completion at a time)
Quiet == \A q \in Procs : pc[q] = "idle"

Step(p, newpc, newframe, call, newresult) ==
    /\ pc' = [pc EXCEPT ![p] = newpc]
    /\ frame' = [frame EXCEPT ![p] = newframe]
    /\ calls' = [calls EXCEPT ![p] = Append(@, call)]
    /\ result' = [result EXCEPT ![p] = newresult]
    /\ UNCHANGED <<prev, args, out>>

\* Next::run: load the session and dispatch on its state
Load(p, me, loaded) ==
    /\ pc[p] = "idle"
    /\ UNCHANGED store
    /\ IF ~loaded
       THEN Step(p, "returned", [IdleFrame EXCEPT !.cmd = "next", !.me = me],
                 Call("load", <<>>, Err), Some("Err"))
       ELSE LET f == [IdleFrame EXCEPT !.cmd = "next", !.me = me, !.session = Some(store)] IN
            IF IsMyTurn(store.state, me)
            THEN Step(p, "tree_is_clean", f, Call("load", <<>>, Ok(store)), None)
            ELSE Step(p, "returned", f, Call("load", <<>>, Ok(store)), Some("Ok"))

\* Next::run as the only command running
Run(p, me, loaded) == Quiet /\ Load(p, me, loaded)

\* The working tree of checkout p has no uncommitted changes: the command
\* before this one ran in p and came past the commit/push step, and nothing
\* was edited since
KnownClean(p) == IsSome(prev) /\ Unwrap(prev).proc = p

\* Faulty variant: changes are committed and pushed whatever the tree's state
AfterTreeCheckAlwaysCommit(clean) == "add"

\* if self.git.tree_is_clean()? { nothing to commit } else { add, commit, push }
AfterTreeCheck(clean) == IF clean THEN "is_lunch_time" ELSE "add"

\* self.git.tree_is_clean()?
TreeIsClean(p, ret) ==
    /\ pc[p] = "tree_is_clean"
    /\ KnownClean(p) => ret # Ok(FALSE)
    /\ UNCHANGED store
    /\ LET o == GitOutcome(ret.ok, AfterTreeCheck(ret.ok /\ ret.val)) IN
       Step(p, o.pc, frame[p], Call("tree_is_clean", <<>>, ret), o.result)

\* self.git.run(add) / run(commit) / run(push)
GitRun(p, ok) ==
    /\ pc[p] \in {"add", "commit", "push"}
    /\ UNCHANGED store
    /\ LET session == Unwrap(frame[p].session)
           k == CASE pc[p] = "add" -> 1 [] pc[p] = "commit" -> 2 [] pc[p] = "push" -> 3
           cont == CASE pc[p] = "add" -> "commit" [] pc[p] = "commit" -> "push"
                     [] pc[p] = "push" -> "is_lunch_time"
       IN  IF pc[p] = "commit" /\ ~IsSome(session.settings)
           THEN Step(p, "returned", frame[p], Call("panic", <<"unwrap">>, Err), Some("Panic"))
           ELSE LET o == GitOutcome(ok, cont) IN
                Step(p, o.pc, frame[p],
                     Call("git.run", GitCommands(session, ConfigRemote)[k],
                          IF ok THEN Ok(<<>>) ELSE Err),
                     o.result)

\* session.drivers.next(name), then take_break up to the lunch decision
IsLunchTime(p, now) ==
    /\ pc[p] = "is_lunch_time"
    /\ UNCHANGED store
    /\ LET session == Unwrap(frame[p].session)
           f == [frame[p] EXCEPT !.next_driver = ComputeNextDriver(session, frame[p].me)]
       IN  IF ~IsSome(session.settings)
           THEN Step(p, "returned", f, Call("panic", <<"unwrap">>, Err), Some("Panic"))
           ELSE LET settings == Unwrap(session.settings)
                    is_lunch == is_lunch_time(now, settings.work_duration,
                                              settings.lunch_start, settings.lunch_end)
                    call == Call("is_lunch_time",
                                 <<now, settings.work_duration,
                                   settings.lunch_start, settings.lunch_end>>, is_lunch)
                IN  IF ~is_lunch.ok THEN Step(p, "returned", f, call, Some("Err"))
                    ELSE IF IsSome(is_lunch.val)
                    THEN Step(p, "confirm_lunch", [f EXCEPT !.is_lunch = is_lunch.val], call, None)
                    ELSE Step(p, "is_break_time", f, call, None)

\* Confirmation "It's lunch time. Go for lunch?"
ConfirmLunch(p, ret) ==
    /\ pc[p] = "confirm_lunch"
    /\ UNCHANGED store
    /\ LET call == Call("confirm", <<LunchText, TRUE>>, ret) IN
       IF ~ret.ok THEN Step(p, "returned", frame[p], call, Some("Err"))
       ELSE LET a == LunchAnswer(ret.val, Unwrap(frame[p].is_lunch)) IN
            Step(p, a.pc, [frame[p] EXCEPT !.brk = a.brk], call, None)

\* is_break_time(Utc::now(), session.last_break, ...)
IsBreakTime(p, now) ==
    /\ pc[p] = "is_break_time"
    /\ UNCHANGED store
    /\ LET session == Unwrap(frame[p].session)
           settings == Unwrap(session.settings)
           should_break == is_break_time(now, session.last_break, settings.break_interval,
                                         settings.break_duration, settings.work_duration)
           call == Call("is_break_time",
                        <<now, session.last_break, settings.break_interval,
                          settings.break_duration, settings.work_duration>>,
                        Ok(should_break))
       IN  IF IsSome(should_break)
           THEN Step(p, "confirm_break", [frame[p] EXCEPT !.should_break = should_break],
                     call, None)
           ELSE Step(p, "save", [frame[p] EXCEPT !.brk = None], call, None)

\* Confirmation "Take a break?"
ConfirmBreak(p, ret) ==
    /\ pc[p] = "confirm_break"
    /\ UNCHANGED store
    /\ LET call == Call("confirm", <<BreakText, TRUE>>, ret) IN
       IF ~ret.ok THEN Step(p, "returned", frame[p], call, Some("Err"))
       ELSE Step(p, "save",
                 [frame[p] EXCEPT !.brk = BreakAnswer(ret.val, Unwrap(frame[p].should_break))],
                 call, None)

\* Faulty variant: the session is read again from the store when it is saved
SessionToUpdateReloaded(loaded, persisted) == persisted

\* `..session`: the rest of the saved session is the `session` Next::run
\* loaded and passed to Next::next, whatever is persisted by now
SessionToUpdate(loaded, persisted) == loaded

\* self.store.save(&session)? in either branch of Next::next
Save(p, ok) ==
    /\ pc[p] = "save"
    /\ LET f == frame[p]
           base == SessionToUpdate(Unwrap(f.session), store)
           session == IF IsSome(f.brk)
                      THEN BreakSession(base, f.next_driver)
                      ELSE WaitingSession(base, f.next_driver)
           call == Call("save", <<session>>, IF ok THEN Ok(<<>>) ELSE Err)
       IN  IF ~ok
           THEN UNCHANGED store /\ Step(p, "returned", f, call, Some("Err"))
           ELSE /\ store' = session
                /\ IF IsSome(f.brk)
                   THEN Step(p, "timer.start", f, call, None)
                   ELSE Step(p, "returned", f, call, Some("Ok"))

\* self.timer.start(title, duration, message)?
TimerStart(p, ok) ==
    /\ pc[p] = "timer.start"
    /\ UNCHANGED store
    /\ LET f == frame[p]
           break_type == Unwrap(f.brk)[1]
           duration == Unwrap(f.brk)[2]
           call == Call("timer.start",
                        <<TimerTitle(break_type, f.next_driver), duration,
                          TimerMessage(break_type, f.next_driver)>>,
                        IF ok THEN Ok(<<>>) ELSE Err)
       IN  Step(p, "returned", f, call, IF ok THEN Some("Ok") ELSE Some("Err"))

\* Status::print_status: the lines printed for the state; the match has an arm
\* for Stopped, Working and WaitingForNext and none for Break
PrintStatus(session, me) ==
    LET state == session.state
        branches == <<"working on ", session.branches.branch,
                      " with parent ", session.branches.base_branch>>
    IN  CASE state.tag = "Stopped" ->
                Ok(<< <<"Stopped">>, <<"Run 'mob start' to start a new session">> >>)
          [] state.tag = "Working" ->
                Ok(<< <<IF state.driver = me THEN <<"You are">> ELSE <<state.driver, " is">>,
                        "driving">>,
                      <<"Run 'mob next' when finished">>,
                      branches >>)
          [] state.tag = "WaitingForNext" ->
                Ok(<< <<"Waiting", " for ",
                        IF state.next = None THEN "Anyone"
                        ELSE IF state.next = Some(me) THEN "You" ELSE Unwrap(state.next),
                        " to run 'mob start'">>,
                      branches >>)
          [] OTHER -> Err

\* Status::print_drivers: one line per driver of the roster, with the prefix
\* ">" (the source prints a chevron) on the current one and " " on the others
PrintDrivers(session) ==
    LET drivers == session.drivers
        state == session.state
        current == CASE state.tag = "Working" -> Some(state.driver)
                     [] state.tag = "WaitingForNext" /\ IsSome(state.next) -> state.next
                     [] OTHER -> None
    IN  [i \in 1..Len(drivers) |->
            <<IF current = Some(drivers[i]) THEN ">" ELSE " ", drivers[i]>>]

\* Status::run: load the session and print it, raw or as status and drivers
StatusRun(p, me, raw, loaded) ==
    /\ pc[p] = "idle"
    /\ Quiet
    /\ pc' = [pc EXCEPT ![p] = "returned"]
    /\ UNCHANGED <<store, prev, args, out>>
    /\ IF ~loaded
       THEN /\ frame' = [frame EXCEPT ![p] = [IdleFrame EXCEPT !.cmd = "status", !.me = me]]
            /\ calls' = [calls EXCEPT ![p] = <<Call("load", <<>>, Err)>>]
            /\ result' = [result EXCEPT ![p] = Some("Err")]
       ELSE LET load == Call("load", <<>>, Ok(store))
                status == PrintStatus(store, me)
            IN  /\ frame' = [frame EXCEPT ![p] = [IdleFrame EXCEPT !.cmd = "status", !.me = me,
                                                                  !.session = Some(store)]]
                /\ IF raw
                   THEN /\ calls' = [calls EXCEPT ![p] =
                                        <<load, Call("println", <<store>>, Ok(<<>>))>>]
                        /\ result' = [result EXCEPT ![p] = Some("Ok")]
                   ELSE IF ~status.ok
                   THEN /\ calls' = [calls EXCEPT ![p] =
                                        <<load, Call("print_status", <<store>>, status)>>]
                        /\ result' = [result EXCEPT ![p] = Some("NoArm")]
                   ELSE /\ calls' = [calls EXCEPT ![p] =
                                        <<load, Call("print_status", <<store>>, status),
                                          Call("print_drivers", <<store>>,
                                               Ok(PrintDrivers(store)))>>]
                        /\ result' = [result EXCEPT ![p] = Some("Ok")]

\* What the following command can rely on: of a `next` that came past the
\* commit/push step, its checkout, its user, its result, how many git.run
\* calls it made and whether a break or lunch was taken; of any other
\* command, nothing
PrevOf(p) ==
    IF frame[p].cmd = "next" /\ \E i \in 1..Len(calls[p]) : calls[p][i].op = "is_lunch_time"
    THEN Some([proc |-> p, me |-> frame[p].me, result |-> Unwrap(result[p]),
               runs |-> Cardinality({ i \in 1..Len(calls[p]) : calls[p][i].op = "git.run" }),
               taken |-> IsSome(frame[p].brk)])
    ELSE None

\* The process of the command ends; the next invocation starts afresh
Exit(p) ==
    /\ pc[p] = "returned"
    /\ pc' = [pc EXCEPT ![p] = "idle"]
    /\ frame' = [frame EXCEPT ![p] = IdleFrame]
    /\ calls' = [calls EXCEPT ![p] = <<>>]
    /\ result' = [result EXCEPT ![p] = None]
    /\ prev' = PrevOf(p)
    /\ UNCHANGED <<store, args, out>>

\* Files of a checkout are edited, or time passes, between two commands
Edit ==
    /\ Quiet
    /\ IsSome(prev)
    /\ prev' = None
    /\ UNCHANGED <<store, pc, frame, calls, result, args, out>>

\* The start command: any state -> Working{driver: me}
StartSession(me, settings, branches, t) ==
    /\ store' = IF store.state = Stopped
                THEN [state |-> Working(me), drivers |-> <<me>>, branches |-> branches,
                      last_break |-> t, settings |-> Some(settings)]
                ELSE [store EXCEPT !.state = Working(me),
                                   !.drivers = WithDriver(@, me),
                                   !.settings = Some(settings)]
    /\ prev' = None
    /\ UNCHANGED <<pc, frame, calls, result, args, out>>

\* The start command as the only command running
Start(me, settings, branches, t) == Quiet /\ StartSession(me, settings, branches, t)

\* The done command: any state -> Stopped, the persisted session cleared
EndSession ==
    /\ store.state # Stopped
    /\ store' = StoppedSession
    /\ prev' = None
    /\ UNCHANGED <<pc, frame, calls, result, args, out>>

\* The done command as the only command running
Done == Quiet /\ EndSession

BoolResults == {Ok(TRUE), Ok(FALSE), Err}

Init ==
    /\ store = StoppedSession
    /\ pc = [p \in Procs |-> "idle"]
    /\ frame = [p \in Procs |-> IdleFrame]
    /\ calls = [p \in Procs |-> <<>>]
    /\ result = [p \in Procs |-> None]
    /\ prev = None
    /\ args = None
    /\ out = None

\* Commands run one at a time and leave nothing behind in the checkout but its
\* working tree, so the serial specification runs them all from one checkout
SerialProcs == {"c1"}

Next ==
    \/ \E p \in SerialProcs, me \in Users, loaded \in BOOLEAN : Run(p, me, loaded)
    \/ \E p \in SerialProcs, ret \in BoolResults : TreeIsClean(p, ret)
    \/ \E p \in SerialProcs, ok \in BOOLEAN : GitRun(p, ok)
    \/ \E p \in SerialProcs, now \in LocalTimes : IsLunchTime(p, now)
    \/ \E p \in SerialProcs, ret \in BoolResults : ConfirmLunch(p, ret)
    \/ \E p \in SerialProcs, now \in UtcInstants : IsBreakTime(p, now)
    \/ \E p \in SerialProcs, ret \in BoolResults : ConfirmBreak(p, ret)
    \/ \E p \in SerialProcs, ok \in BOOLEAN : Save(p, ok)
    \/ \E p \in SerialProcs, ok \in BOOLEAN : TimerStart(p, ok)
    \/ \E p \in SerialProcs, me \in Users, raw \in BOOLEAN, loaded \in BOOLEAN :
          StatusRun(p, me, raw, loaded)
    \/ \E p \in SerialProcs : Exit(p)
    \/ \E me \in Users, settings \in ConfigSettings, branches \in BranchChoices,
          t \in LastBreaks : Start(me, settings, branches, t)
    \/ Done
    \/ Edit

Spec == Init /\ [][Next]_vars

-----------------------------------------------------------------------------
(* Commands of two checkouts interleaved: nothing makes a command wait for
   another, each collaborator call is a step of its own. Fewer inputs than in
   Spec: two users, one branch pair, one settings record (lunch 23:00-00:30),
   clock readings at which lunch and a break are due, a dirty tree, lunch
   declined, a break accepted or declined, and no failing collaborator. *)

ConcUsers == {"alice", "bob"}
ConcSettings == { s \in ConfigSettings : s.break_interval = 1 }
ConcBranches == { b \in BranchChoices : b.branch = "mob-session" }
ConcLocalTimes == {83100}
ConcUtcInstants == {3200}
ConcLastBreaks == {0}
ConcTreeAnswers == {Ok(FALSE)}
ConcLunchAnswers == {Ok(FALSE)}
ConcBreakAnswers == {Ok(TRUE), Ok(FALSE)}

NextConc ==
    \/ \E p \in Procs, me \in ConcUsers : Load(p, me, TRUE)
    \/ \E p \in Procs, ret \in ConcTreeAnswers : TreeIsClean(p, ret)
    \/ \E p \in Procs : GitRun(p, TRUE)
    \/ \E p \in Procs, now \in ConcLocalTimes : IsLunchTime(p, now)
    \/ \E p \in Procs, ret \in ConcLunchAnswers : ConfirmLunch(p, ret)
    \/ \E p \in Procs, now \in ConcUtcInstants : IsBreakTime(p, now)
    \/ \E p \in Procs, ret \in ConcBreakAnswers : ConfirmBreak(p, ret)
    \/ \E p \in Procs : Save(p, TRUE)
    \/ \E p \in Procs : TimerStart(p, TRUE)
    \/ \E p \in Procs : Exit(p)
    \/ \E me \in ConcUsers, settings \in ConcSettings, branches \in ConcBranches,
          t \in ConcLastBreaks : StartSession(me, settings, branches, t)
    \/ EndSession

SpecConc == Init /\ [][NextConc]_vars

-----------------------------------------------------------------------------
(* The schedule functions on their own: arguments drawn from bounded sets *)

MaxWork == 5
MaxInterval == 2
MaxBreakDuration == 1

WorkDurations == (0..MaxWork) \cup {-3, 9, 10, 15}
BreakIntervals == (0..MaxInterval) \cup {55}
BreakDurations == (0..MaxBreakDuration) \cup {10}

\* Instants around every whole minute up to the largest small threshold, and
\* around 59, 60, 62 and 63 minutes
BreakNows ==
    { m * 60 + d : m \in (0..(MaxInterval + MaxWork + 1)) \cup {59, 60, 62, 63},
                   d \in {-1, 0, 1, 30} }

BreakArgs ==
    [fn : {"is_break_time"}, now : BreakNows, last_break : {0, 60},
     break_interval : BreakIntervals, break_duration : BreakDurations,
     work_duration : WorkDurations]

LunchStarts ==
    { <<"1", "1", ":", "3", "0">>, <<"1", "1", ":", "4", "0">>,
      <<"0", "0", ":", "0", "2">>, <<"2", "3", ":", "5", "8">>,
      <<"2", "5", ":", "9", "9">>, <<"9", ":", "5">>,
      <<"1", "2", "3", "0">>, <<"n", "o", "o", "n">> }

LunchEnds ==
    { <<"1", "2", ":", "3", "0">>, <<"0", "0", ":", "0", "2">>,
      <<"2", "5", ":", "9", "9">> }

\* Times of day around the windows of the lunch starts above, and 12:10
LunchNows ==
    { h * 3600 + m * 60 + d :
        h \in {0, 11, 23}, m \in (0..(3 * MaxWork)) \cup (25..59), d \in {0, 30, 59} }
    \cup { 12 * 3600 + 10 * 60, 9 * 3600 + 5 * 60, 9 * 3600 + 2 * 60 }

LunchArgs ==
    [fn : {"is_lunch_time"}, now : LunchNows, work_duration : WorkDurations,
     lunch_start : LunchStarts, lunch_end : LunchEnds]

InitSchedule ==
    /\ store = StoppedSession
    /\ pc = [p \in Procs |-> "idle"]
    /\ frame = [p \in Procs |-> IdleFrame]
    /\ calls = [p \in Procs |-> <<>>]
    /\ result = [p \in Procs |-> None]
    /\ prev = None
    /\ args \in { Some(a) : a \in BreakArgs \cup LunchArgs }
    /\ out = None

CallIsBreakTime ==
    /\ out = None
    /\ Unwrap(args).fn = "is_break_time"
    /\ LET a == Unwrap(args) IN
       out' = Some(is_break_time(a.now, a.last_break, a.break_interval,
                                 a.break_duration, a.work_duration))
    /\ UNCHANGED <<store, pc, frame, calls, result, prev, args>>

CallIsLunchTime ==
    /\ out = None
    /\ Unwrap(args).fn = "is_lunch_time"
    /\ LET a == Unwrap(args) IN
       out' = Some(is_lunch_time(a.now, a.work_duration, a.lunch_start, a.lunch_end))
    /\ UNCHANGED <<store, pc, frame, calls, result, prev, args>>

NextSchedule == CallIsBreakTime \/ CallIsLunchTime

SpecSchedule == InitSchedule /\ [][NextSchedule]_vars

-----------------------------------------------------------------------------
(* Properties of the `next` command, checked under Spec *)

Loaded(p) == IsSome(frame[p].session)
Sess(p) == Unwrap(frame[p].session)
Me(p) == frame[p].me
CallIdx(p) == 1..Len(calls[p])

\* The command of checkout p loaded a session in which it is p's user's turn
ValidNext(p) ==
    /\ pc[p] # "idle"
    /\ frame[p].cmd = "next"
    /\ Loaded(p)
    /\ Sess(p).state.tag = "Working"
    /\ Sess(p).state.driver = Me(p)

\* The command of checkout p loaded a session in which `next` does not apply
InvalidNext(p) ==
    /\ pc[p] # "idle"
    /\ frame[p].cmd = "next"
    /\ Loaded(p)
    /\ (Sess(p).state.tag # "Working" \/ Sess(p).state.driver # Me(p))

IsGitCall(c) == c.op \in {"tree_is_clean", "git.run"}

\* C1: a `next` on a session that is not Working, or whose driver is another
\* user, returns success having made no call but the load, and the persisted
\* session is the one it loaded.
C1_InvalidNextIsNoOp ==
    \A p \in Procs :
        InvalidNext(p) =>
            /\ pc[p] = "returned"
            /\ result[p] = Some("Ok")
            /\ Len(calls[p]) = 1
            /\ calls[p][1].op = "load"
            /\ store = Sess(p)

C1_Witness ==
    \E p \in Procs :
        /\ InvalidNext(p)
        /\ Sess(p).state.tag = "Working"
        /\ pc[p] = "returned"

\* C2: when tree_is_clean, add, commit or push fails in a valid `next`, the
\* failing call is the last thing the command does, the command returns the
\* error, save was never called and the persisted session is still
\* Working{driver}.
C2_GitFailureAborts ==
    \A p \in Procs : \A i \in CallIdx(p) :
        (IsGitCall(calls[p][i]) /\ ~calls[p][i].ret.ok) =>
            /\ i = Len(calls[p])
            /\ pc[p] = "returned"
            /\ result[p] = Some("Err")
            /\ \A j \in CallIdx(p) : calls[p][j].op \notin {"save", "confirm", "timer.start"}
            /\ store = Sess(p)
            /\ store.state = Working(Me(p))

C2_Witness ==
    \E p \in Procs :
        /\ Len(calls[p]) = 5
        /\ calls[p][5].op = "git.run"
        /\ calls[p][5].arg[1] = "push"
        /\ ~calls[p][5].ret.ok
        /\ pc[p] = "returned"

\* C3 (as claimed): whenever a valid `next` has failed, the persisted session is
\* the session that was persisted before the command started.
C3_FailedNextLeavesStore ==
    \A p \in Procs :
        (ValidNext(p) /\ result[p] = Some("Err")) => store = Sess(p)

\* C4: after a valid `next` that returned Ok, the persisted state is
\* Break{next: n} if a confirmation was answered yes and WaitingForNext{next: n}
\* otherwise, with n = drivers.next(acting user).
C4_StateAfterNext ==
    \A p \in Procs :
        (ValidNext(p) /\ pc[p] = "returned" /\ result[p] = Some("Ok")) =>
            LET n == DriversNext(Sess(p).drivers, Me(p))
                accepted == \E i \in CallIdx(p) :
                                /\ calls[p][i].op = "confirm"
                                /\ calls[p][i].ret.ok
                                /\ calls[p][i].ret.val
            IN  /\ store.state = IF accepted THEN Break(n) ELSE WaitingForNext(n)
                /\ store.state.tag \notin {"Working", "Stopped"}

C4_Witness ==
    \E p \in Procs :
        /\ ValidNext(p) /\ pc[p] = "returned" /\ result[p] = Some("Ok")
        /\ store.state.tag = "Break"
        /\ IsSome(store.state.next)
        /\ \E i \in CallIdx(p) : calls[p][i].op = "confirm" /\ calls[p][i].ret = Ok(FALSE)

\* C5 (as claimed): the session saved when a break is accepted has last_break
\* set to the time of that break (the instant the break check read), and the
\* session saved when lunch is accepted keeps the last_break it was loaded with.
C5_BreakUpdatesLastBreak ==
    \A p \in Procs : \A i \in CallIdx(p) :
        (calls[p][i].op = "save" /\ calls[p][i].ret.ok /\ IsSome(frame[p].brk)) =>
            LET saved == calls[p][i].arg[1] IN
            IF Unwrap(frame[p].brk)[1] = "Break"
            THEN \E j \in 1..(i - 1) :
                    /\ calls[p][j].op = "is_break_time"
                    /\ saved.last_break = calls[p][j].arg[1]
            ELSE saved.last_break = Sess(p).last_break

\* C6: in a valid `next` the first call after the load is tree_is_clean; on a
\* dirty tree the git.run calls are add --all, commit --message <message>
\* --no-verify, push --no-verify <remote> <branch>, in that order, each after
\* the previous one succeeded and all before save; on a clean tree there is no
\* git.run call and the command goes on to the schedule and the save.
C6_GitCallOrder ==
    \A p \in Procs :
        (ValidNext(p) /\ Len(calls[p]) >= 2) =>
            LET c == calls[p]
                runs == { i \in CallIdx(p) : c[i].op = "git.run" }
                saves == { i \in CallIdx(p) : c[i].op = "save" }
                expected ==
                    << <<"add", "--all">>,
                       <<"commit", "--message",
                         Unwrap(Sess(p).settings).commit_message, "--no-verify">>,
                       <<"push", "--no-verify", ConfigRemote, Sess(p).branches.branch>> >>
            IN  /\ c[2].op = "tree_is_clean"
                /\ \A i \in runs :
                      /\ i \in 3..5
                      /\ c[2].ret = Ok(FALSE)
                      /\ c[i].arg = expected[i - 2]
                      /\ c[i - 1].ret.ok
                /\ \A s \in saves :
                      /\ \A i \in runs : i < s
                      /\ c[2].ret = Ok(FALSE) => (runs = 3..5 /\ c[5].ret.ok)
                /\ (c[2].ret = Ok(TRUE)) =>
                      /\ runs = {}
                      /\ Len(c) >= 3 => c[3].op = "is_lunch_time"
                      /\ (pc[p] = "returned" /\ result[p] = Some("Ok")) =>
                            \E s \in saves : c[s].ret.ok

C6_Witness ==
    \E p \in Procs :
        /\ ValidNext(p)
        /\ Len(calls[p]) >= 6
        /\ calls[p][5].op = "git.run" /\ calls[p][5].arg[1] = "push"
        /\ \E s \in CallIdx(p) : calls[p][s].op = "save" /\ calls[p][s].ret.ok

\* C7: when the lunch confirmation is answered yes, take_break returns
\* ("Lunch", the duration is_lunch_time returned) and that round makes neither
\* an is_break_time evaluation nor a break confirmation; every is_break_time
\* evaluation comes after the is_lunch_time evaluation.
C7_LunchBeforeBreak ==
    \A p \in Procs : \A i \in CallIdx(p) :
        LET c == calls[p] IN
        /\ (c[i].op = "confirm" /\ c[i].arg[1] = LunchText /\ c[i].ret = Ok(TRUE)) =>
              /\ c[i - 1].op = "is_lunch_time"
              /\ frame[p].brk = Some(<<"Lunch", Unwrap(c[i - 1].ret.val)>>)
              /\ \A j \in CallIdx(p) :
                    /\ c[j].op # "is_break_time"
                    /\ c[j].op = "confirm" => c[j].arg[1] # BreakText
        /\ c[i].op = "is_break_time" =>
              \E k \in 1..(i - 1) : c[k].op = "is_lunch_time"

\* Lunch accepted although, by the time since the last break, a break was due too
C7_Witness ==
    \E p \in Procs :
        /\ IsSome(frame[p].brk)
        /\ Unwrap(frame[p].brk)[1] = "Lunch"
        /\ \E i \in CallIdx(p) : calls[p][i].op = "save"
        /\ LET st == Unwrap(Sess(p).settings) IN
           \A now \in UtcInstants :
               now - Sess(p).last_break > (st.break_interval + st.work_duration \div 2) * 60

\* Seconds since midnight of a well-formed five-character "HH:MM"
ClockSecs(s) ==
    (DigitVal(s[1]) * 10 + DigitVal(s[2])) * 3600 + (DigitVal(s[4]) * 10 + DigitVal(s[5])) * 60

\* C10: a duration returned by is_lunch_time is lunch_end minus lunch_start as
\* signed numbers (negative when lunch_end is the earlier time of day), whatever
\* now and work_duration are, and it is the duration given to timer.start when
\* lunch is accepted.
C10_LunchDurationRaw ==
    \A p \in Procs : \A i \in CallIdx(p) :
        LET c == calls[p] IN
        (c[i].op = "is_lunch_time" /\ c[i].ret.ok /\ IsSome(c[i].ret.val)) =>
            LET d == Unwrap(c[i].ret.val)
                ls == ClockSecs(c[i].arg[3])
                le == ClockSecs(c[i].arg[4])
            IN  /\ d = le - ls
                /\ le < ls => d < 0
                /\ \A j \in CallIdx(p) :
                      (c[j].op = "timer.start" /\ c[j].arg[1][1] = "Lunch") => c[j].arg[2] = d

C10_Witness ==
    \E p \in Procs : \E j \in CallIdx(p) :
        /\ calls[p][j].op = "timer.start"
        /\ calls[p][j].arg[1][1] = "Lunch"
        /\ calls[p][j].arg[2] < 0

\* A time of day written HH:MM: two digits, a colon, two digits, 00:00 to 23:59
WellFormedTime(s) ==
    /\ Len(s) = 5
    /\ s[3] = ":"
    /\ \A i \in {1, 2, 4, 5} : DigitVal(s[i]) >= 0
    /\ DigitVal(s[1]) * 10 + DigitVal(s[2]) <= 23
    /\ DigitVal(s[4]) * 10 + DigitVal(s[5]) <= 59

AfterPlainNext(p) ==
    /\ pc[p] # "idle"
    /\ frame[p].cmd = "next"
    /\ Loaded(p)
    /\ IsSome(prev)
    /\ Unwrap(prev).me = Me(p)
    /\ Unwrap(prev).result = "Ok"
    /\ Unwrap(prev).runs = 0
    /\ ~Unwrap(prev).taken

\* C12: when `next` is run twice in immediate succession by the same user, with
\* a clean tree and no break taken, the first run leaves WaitingForNext{next: n}
\* with n = drivers.next(user), the second run finds that state, ends
\* successfully after the load alone and leaves the same state with the same
\* n; neither run calls git.run, so neither commits or pushes.
C12_NextTwice ==
    \A p \in Procs :
        AfterPlainNext(p) =>
            /\ Sess(p).state = WaitingForNext(DriversNext(Sess(p).drivers, Me(p)))
            /\ pc[p] = "returned"
            /\ result[p] = Some("Ok")
            /\ Len(calls[p]) = 1
            /\ \A i \in CallIdx(p) : ~IsGitCall(calls[p][i])
            /\ store = Sess(p)

C12_Witness ==
    \E p \in Procs :
        /\ AfterPlainNext(p)
        /\ pc[p] = "returned"
        /\ IsSome(Sess(p).state.next)

\* C13: in the persisted session, and so in every session a command loads,
\* settings is None exactly when state is Stopped; a valid `next` (state
\* Working) therefore finds settings present at the commit step and in
\* take_break and never panics on unwrap, and the session it saves (state
\* Break or WaitingForNext) has the settings it loaded, which are present.
C13_SettingsIffStopped ==
    /\ (store.settings = None) <=> (store.state = Stopped)
    /\ \A p \in Procs :
        /\ (pc[p] # "idle" /\ Loaded(p)) =>
                ((Sess(p).settings = None) <=> (Sess(p).state = Stopped))
        /\ ValidNext(p) =>
                /\ IsSome(Sess(p).settings)
                /\ result[p] # Some("Panic")
                /\ \A i \in CallIdx(p) : calls[p][i].op # "panic"
        /\ \A i \in CallIdx(p) :
                calls[p][i].op = "save" =>
                    /\ calls[p][i].arg[1].state.tag \in {"Break", "WaitingForNext"}
                    /\ IsSome(calls[p][i].arg[1].settings)
                    /\ calls[p][i].arg[1].settings = Sess(p).settings

C13_Witness ==
    \E p \in Procs : \E i, j \in CallIdx(p) :
        /\ ValidNext(p)
        /\ calls[p][i].op = "git.run"
        /\ calls[p][i].arg[1] = "commit"
        /\ calls[p][j].op = "save"
        /\ calls[p][j].ret.ok
        /\ store.state.tag = "Break"
        /\ IsSome(store.settings)
        /\ pc[p] = "returned"

\* A valid `next` has computed its next driver
NextComputed(p) ==
    /\ ValidNext(p)
    /\ \E i \in CallIdx(p) : calls[p][i].op = "is_lunch_time"

\* C14: the next driver of a valid `next` is drivers.next(acting user), a
\* function of the roster and the user alone: the roster has no duplicates and
\* holds the user; with at least 2 drivers the next driver is Some(entry after
\* the user in insertion order, the first entry after the last), which is
\* never the user; with fewer it is None, and the timer then names "anyone!".
C14_NextDriver ==
    \A p \in Procs :
        NextComputed(p) =>
            LET d == Sess(p).drivers
                n == frame[p].next_driver
            IN  /\ Cardinality({ d[i] : i \in 1..Len(d) }) = Len(d)
                /\ \E i \in 1..Len(d) :
                       /\ d[i] = Me(p)
                       /\ n = IF Len(d) < 2 THEN None
                              ELSE Some(d[IF i = Len(d) THEN 1 ELSE i + 1])
                /\ IsSome(n) <=> Len(d) >= 2
                /\ IsSome(n) => Unwrap(n) # Me(p)
                /\ n = DriversNext(d, Me(p))
                /\ \A j \in CallIdx(p) :
                       calls[p][j].op = "timer.start" =>
                           calls[p][j].arg[1][3] = (IF IsSome(n) THEN Unwrap(n) ELSE "anyone!")

C14_Witness ==
    \E p \in Procs :
        /\ NextComputed(p)
        /\ Len(Sess(p).drivers) = 3
        /\ Sess(p).drivers[3] = Me(p)
        /\ frame[p].next_driver = Some(Sess(p).drivers[1])
        /\ pc[p] = "returned"

\* C15: the session a valid `next` saves is the session it loaded with the
\* state field replaced by Break or WaitingForNext: branches (working and base
\* branch), the roster (same members in the same order), settings and
\* last_break are those loaded, and a successful save makes exactly that
\* session the persisted one.
C15_SavedSessionFrame ==
    \A p \in Procs : \A i \in CallIdx(p) :
        calls[p][i].op = "save" =>
            LET saved == calls[p][i].arg[1] IN
            /\ ValidNext(p)
            /\ saved.state.tag \in {"Break", "WaitingForNext"}
            /\ saved.branches = Sess(p).branches
            /\ saved.drivers = Sess(p).drivers
            /\ saved.settings = Sess(p).settings
            /\ saved = [Sess(p) EXCEPT !.state = saved.state]
            /\ calls[p][i].ret.ok => store = saved

C15_Witness ==
    \E p \in Procs : \E i \in CallIdx(p) :
        /\ calls[p][i].op = "save"
        /\ calls[p][i].ret.ok
        /\ store.state.tag = "WaitingForNext"
        /\ Len(store.drivers) = 3
        /\ store.branches.branch # store.branches.base_branch
        /\ pc[p] = "returned"

\* The i-th call of the command in p is a confirmation the user accepted
Accepted(p, i) ==
    /\ calls[p][i].op = "confirm"
    /\ calls[p][i].ret.ok
    /\ calls[p][i].ret.val

TimerCalls(p) == { i \in CallIdx(p) : calls[p][i].op = "timer.start" }

\* The duration the accepted confirmation k stands for: what is_lunch_time
\* returned for lunch, break_duration minutes for a break
AcceptedDuration(p, k) ==
    IF calls[p][k].arg[1] = LunchText
    THEN LET l == CHOOSE l \in CallIdx(p) : calls[p][l].op = "is_lunch_time"
         IN  Unwrap(calls[p][l].ret.val)
    ELSE Minutes(Unwrap(Sess(p).settings).break_duration)

\* timer.start is called at most once, by a valid `next`, right after the
\* successful save of Break{next} and after an accepted confirmation; title and
\* message name the kind accepted and the next driver stored in Break{next}
\* ("anyone!" for None), and the duration is that of the kind accepted
TimerCallsWellFormed(p) ==
    /\ Cardinality(TimerCalls(p)) <= 1
    /\ \A i \in TimerCalls(p) :
        LET c == calls[p] IN
        /\ ValidNext(p)
        /\ i > 1
        /\ c[i - 1].op = "save"
        /\ c[i - 1].ret.ok
        /\ c[i - 1].arg[1].state.tag = "Break"
        /\ \E k \in 1..(i - 2) :
            LET kind == IF c[k].arg[1] = LunchText THEN "Lunch" ELSE "Break"
                n == c[i - 1].arg[1].state.next
                name == IF n = None THEN "anyone!" ELSE n[1]
            IN  /\ Accepted(p, k)
                /\ \A k2 \in CallIdx(p) : Accepted(p, k2) => k2 = k
                /\ c[i].arg[1] = <<kind, ", next driver ", name>>
                /\ c[i].arg[3] = <<kind, " over. ", name, " turn">>
                /\ c[i].arg[2] = AcceptedDuration(p, k)

Finished(p) == pc[p] = "returned" /\ frame[p].cmd = "next"

\* C16 as stated: in a finished `next`, timer.start was called if and only if
\* a break or lunch was accepted (at most once, after the successful save of
\* Break{next}, with the kind, next driver and duration accepted).
C16_TimerIffAccepted ==
    \A p \in Procs :
        /\ TimerCallsWellFormed(p)
        /\ Finished(p) =>
               (TimerCalls(p) # {} <=> \E k \in CallIdx(p) : Accepted(p, k))

\* C16 (amended): in a finished `next`, timer.start was called if and only if
\* a break or lunch was accepted and the save of Break{next} succeeded; it is
\* called at most once, right after that save, its title and message name the
\* kind accepted and the next driver stored in Break{next} ("anyone!" for
\* None), its duration is the lunch duration for lunch and break_duration for
\* a break; when nothing is accepted no timer is started.
C16_TimerIffAcceptedAndSaved ==
    \A p \in Procs :
        /\ TimerCallsWellFormed(p)
        /\ Finished(p) =>
               (TimerCalls(p) # {} <=>
                    /\ \E k \in CallIdx(p) : Accepted(p, k)
                    /\ \E j \in CallIdx(p) : calls[p][j].op = "save" /\ calls[p][j].ret.ok)
        /\ (\A k \in CallIdx(p) : ~Accepted(p, k)) => TimerCalls(p) = {}

C16_Witness ==
    \E p \in Procs : \E i \in TimerCalls(p) :
        /\ calls[p][i].ret.ok
        /\ calls[p][i].arg[1][1] = "Lunch"
        /\ calls[p][i].arg[1][3] # "anyone!"
        /\ result[p] = Some("Ok")

\* What the command in p does after its i-th call: the next call it made, or
\* the step it is at
StepAfter(p, i) ==
    IF Len(calls[p]) > i THEN calls[p][i + 1].op ELSE pc[p]

\* After its i-th call the command asks the confirmation `text`
AsksAfter(p, i, text) ==
    IF Len(calls[p]) > i
    THEN calls[p][i + 1].op = "confirm" /\ calls[p][i + 1].arg[1] = text
    ELSE pc[p] = (IF text = LunchText THEN "confirm_lunch" ELSE "confirm_break")

\* After its i-th call the command saves the loaded session with this state
SavesAfter(p, i, state) ==
    IF Len(calls[p]) > i
    THEN /\ calls[p][i + 1].op = "save"
         /\ calls[p][i + 1].arg[1].state = state
         /\ calls[p][i + 1].ret.ok => store.state = state
    ELSE pc[p] = "save"

\* C17: in one `next` the user is asked about lunch exactly when is_lunch_time
\* returned Some and about a break exactly when is_break_time returned Some, so
\* at most twice; a declined lunch is followed by the break check, which asks
\* "Take a break?" when a break is due; an accepted break makes the saved state
\* Break{next} with kind "Break" and duration break_duration; when neither is
\* due the saved state is WaitingForNext{next} and nothing was asked.
C17_DeclinedLunchThenBreak ==
    \A p \in Procs :
        LET c == calls[p]
            n == frame[p].next_driver
            confirms == { i \in CallIdx(p) : c[i].op = "confirm" }
        IN  /\ Cardinality(confirms) <= 2
            /\ \A i, j \in confirms : c[i].arg[1] = c[j].arg[1] => i = j
            /\ \A i \in confirms :
                   /\ i > 1
                   /\ c[i].arg[1] \in {LunchText, BreakText}
                   /\ c[i - 1].op = (IF c[i].arg[1] = LunchText THEN "is_lunch_time"
                                                               ELSE "is_break_time")
                   /\ c[i - 1].ret.ok
                   /\ IsSome(c[i - 1].ret.val)
            /\ \A i \in CallIdx(p) :
                   /\ (c[i].op = "is_lunch_time" /\ c[i].ret.ok) =>
                          IF IsSome(c[i].ret.val) THEN AsksAfter(p, i, LunchText)
                          ELSE StepAfter(p, i) = "is_break_time"
                   /\ (c[i].op = "confirm" /\ c[i].arg[1] = LunchText
                            /\ c[i].ret.ok /\ ~c[i].ret.val) =>
                          StepAfter(p, i) = "is_break_time"
                   /\ c[i].op = "is_break_time" =>
                          IF IsSome(c[i].ret.val) THEN AsksAfter(p, i, BreakText)
                          ELSE /\ SavesAfter(p, i, WaitingForNext(n))
                               /\ frame[p].brk = None
                   /\ (c[i].op = "confirm" /\ c[i].arg[1] = BreakText /\ c[i].ret.ok) =>
                          IF c[i].ret.val
                          THEN /\ SavesAfter(p, i, Break(n))
                               /\ frame[p].brk =
                                      Some(<<"Break", Minutes(Unwrap(Sess(p).settings).break_duration)>>)
                          ELSE /\ SavesAfter(p, i, WaitingForNext(n))
                               /\ frame[p].brk = None
            /\ (\E i \in CallIdx(p) : c[i].op = "save" /\ confirms = {}) =>
                   \E i \in CallIdx(p) : c[i].op = "save"
                                          /\ c[i].arg[1].state = WaitingForNext(n)

C17_Witness ==
    \E p \in Procs : \E i, j, k \in CallIdx(p) :
        /\ calls[p][i].op = "confirm"
        /\ calls[p][i].arg[1] = LunchText
        /\ calls[p][i].ret.ok
        /\ ~calls[p][i].ret.val
        /\ Accepted(p, j)
        /\ calls[p][j].arg[1] = BreakText
        /\ calls[p][k].op = "timer.start"
        /\ calls[p][k].arg[1][1] = "Break"
        /\ store.state = Break(frame[p].next_driver)
        /\ IsSome(frame[p].next_driver)

\* The i-th call of the command in p is a schedule evaluation or a prompt
IsScheduleCall(p, i) ==
    calls[p][i].op \in {"is_lunch_time", "is_break_time", "confirm"}

\* The commit/push step was complete before the i-th call: the tree was found
\* clean, or add, commit and push all succeeded
GitStepDoneBefore(p, i) ==
    \E t \in 1..(i - 1) :
        LET c == calls[p] IN
        /\ c[t].op = "tree_is_clean"
        /\ c[t].ret.ok
        /\ \/ c[t].ret.val
           \/ /\ t + 3 < i
              /\ \A k \in 1..3 : c[t + k].op = "git.run" /\ c[t + k].ret.ok
              /\ c[t + 1].arg[1] = "add"
              /\ c[t + 2].arg[1] = "commit"
              /\ c[t + 3].arg[1] = "push"
        /\ \A k \in i..Len(c) : ~IsGitCall(c[k])

\* The command in p is a valid `next` of the user whose previous `next`, in
\* the same checkout, failed after its commit/push step
RerunAfterFailure(p) ==
    /\ ValidNext(p)
    /\ KnownClean(p)
    /\ Unwrap(prev).me = Me(p)
    /\ Unwrap(prev).result = "Err"

\* C18: schedule evaluation and prompts of a valid `next` come only after the
\* commit/push step is complete; when an evaluation or a prompt fails the
\* command ends with the error, nothing is saved and the persisted state is
\* still Working{driver: user}, also when add, commit and push have already
\* succeeded; the same user's next run in that checkout is valid again, finds
\* the tree clean, makes no git.run call and goes on to the evaluation.
C18_ScheduleFailureAfterPush ==
    \A p \in Procs :
        LET c == calls[p] IN
        /\ \A i \in CallIdx(p) :
               IsScheduleCall(p, i) =>
                   /\ ValidNext(p)
                   /\ GitStepDoneBefore(p, i)
                   /\ ~c[i].ret.ok =>
                          /\ i = Len(c)
                          /\ pc[p] = "returned"
                          /\ result[p] = Some("Err")
                          /\ \A j \in CallIdx(p) : c[j].op # "save"
                          /\ store = Sess(p)
                          /\ store.state = Working(Me(p))
        /\ RerunAfterFailure(p) =>
               /\ \A i \in CallIdx(p) : c[i].op # "git.run"
               /\ \A i \in CallIdx(p) :
                      (c[i].op = "tree_is_clean" /\ c[i].ret.ok) =>
                          /\ c[i].ret.val
                          /\ StepAfter(p, i) = "is_lunch_time"

C18_Witness ==
    \E p \in Procs : \E i \in CallIdx(p) :
        /\ RerunAfterFailure(p)
        /\ Unwrap(prev).runs = 3
        /\ calls[p][i].op = "is_lunch_time"
        /\ ~calls[p][i].ret.ok
        /\ store.state = Working(Me(p))

\* The drivers marked in the list the status command in p printed
Marked(p) ==
    LET lines == calls[p][3].ret.val IN
    { lines[i][2] : i \in { k \in 1..Len(lines) : lines[k][1] # " " } }

\* C20: for every persisted state a finished `next` or status that loaded the
\* session has a defined outcome: the state is one of the four, `next` ends
\* with Ok or Err, status ends with Ok having printed the state (raw, or by
\* print_status and print_drivers); in Stopped, Break and WaitingForNext both
\* leave the persisted session as loaded; the driver list marks the driver
\* when Working, the named next driver when WaitingForNext, and nobody else.
C20_EveryStateHandled ==
    \A p \in Procs :
        (pc[p] = "returned" /\ Loaded(p)) =>
            LET state == Sess(p).state IN
            /\ state.tag \in {"Stopped", "Working", "Break", "WaitingForNext"}
            /\ state.tag # "Working" => store = Sess(p)
            /\ frame[p].cmd = "next" => result[p] \in {Some("Ok"), Some("Err")}
            /\ (frame[p].cmd = "next" /\ state.tag # "Working") =>
                   result[p] = Some("Ok") /\ Len(calls[p]) = 1
            /\ frame[p].cmd = "status" =>
                   /\ result[p] = Some("Ok")
                   /\ store = Sess(p)
                   /\ calls[p][2].op = "print_status" =>
                          /\ calls[p][2].ret.ok
                          /\ Len(calls[p]) = 3
                          /\ calls[p][3].op = "print_drivers"
                          /\ Marked(p) =
                                 CASE state.tag = "Working" -> {state.driver}
                                   [] state.tag = "WaitingForNext" /\ IsSome(state.next) ->
                                          {Unwrap(state.next)}
                                   [] OTHER -> {}

-----------------------------------------------------------------------------
(* Properties of the schedule functions, checked under SpecSchedule *)

Evaluated(fn) == IsSome(args) /\ Unwrap(args).fn = fn /\ IsSome(out)

\* C8: for non-negative break_interval, break_duration and work_duration,
\* is_break_time returns Some(break_duration minutes) exactly when the time
\* since last_break is strictly more than break_interval + work_duration/2
\* minutes (the half truncated), and None otherwise, the boundary included.
C8_BreakTimeIff ==
    Evaluated("is_break_time") =>
        LET a == Unwrap(args)
            elapsed == a.now - a.last_break
            grace == a.break_interval + (a.work_duration - (a.work_duration % 2)) \div 2
        IN  (a.break_interval >= 0 /\ a.break_duration >= 0 /\ a.work_duration >= 0) =>
                /\ elapsed > grace * 60 => Unwrap(out) = Some(a.break_duration * 60)
                /\ elapsed <= grace * 60 => Unwrap(out) = None
                /\ (elapsed = 3600 /\ a.break_interval = 55 /\ a.work_duration = 9
                    /\ a.break_duration = 10) => Unwrap(out) = Some(600)
                /\ (elapsed = 3600 /\ a.break_interval = 55 /\ a.work_duration = 15) =>
                      Unwrap(out) = None

\* The boundary: the elapsed time equals the threshold of an odd work duration
C8_Witness ==
    /\ Evaluated("is_break_time")
    /\ Unwrap(args).work_duration = 5
    /\ Unwrap(args).break_interval = 2
    /\ Unwrap(args).now - Unwrap(args).last_break = 240
    /\ Unwrap(out) = None

\* C9 (as claimed): for well-formed lunch_start and lunch_end and a non-negative
\* work_duration, is_lunch_time returns Some exactly when now lies in the daily
\* window from lunch_start - work_duration/2 (the half truncated to whole
\* minutes) up to but excluding lunch_start + work_duration.
C9_LunchWindowIff ==
    Evaluated("is_lunch_time") =>
        LET a == Unwrap(args)
            r == Unwrap(out)
        IN  (Len(a.lunch_start) = 5 /\ r.ok /\ a.work_duration >= 0) =>
                LET ls == ClockSecs(a.lunch_start)
                    from == ls - (a.work_duration \div 2) * 60
                    to == ls + a.work_duration * 60
                    inWindow == \E k \in {-1, 0, 1} :
                                    /\ from <= a.now + k * SecsPerDay
                                    /\ a.now + k * SecsPerDay < to
                IN  IsSome(r.val) <=> inWindow

-----------------------------------------------------------------------------
(* Properties of interleaved commands, checked under SpecConc *)

\* The command in p has just saved successfully: the session it handed over
JustSaved(p) ==
    /\ Len(calls'[p]) = Len(calls[p]) + 1
    /\ calls'[p][Len(calls'[p])].op = "save"
    /\ calls'[p][Len(calls'[p])].ret.ok

\* What a `next` in p does with the session: one load, as its first call, and
\* every session it saves is the loaded one with the state replaced by Break
\* or WaitingForNext of drivers.next taken on the loaded roster
SavesFromLoaded(p) ==
    (pc[p] # "idle" /\ frame[p].cmd = "next") =>
        /\ calls[p][1].op = "load"
        /\ \A i \in 2..Len(calls[p]) : calls[p][i].op # "load"
        /\ \A i \in CallIdx(p) :
               calls[p][i].op = "save" =>
                   LET n == DriversNext(Sess(p).drivers, Me(p)) IN
                   \/ calls[p][i].arg[1] = [Sess(p) EXCEPT !.state = Break(n)]
                   \/ calls[p][i].arg[1] = [Sess(p) EXCEPT !.state = WaitingForNext(n)]

\* C19: with commands of two checkouts interleaved, a `next` loads the session
\* once, as its first call, and never again; what it saves is computed from
\* the session it loaded alone; the moment its save succeeds the persisted
\* session is the one it saved, whatever was persisted since its load; and
\* the persisted state is always Stopped, Working, Break or WaitingForNext.
C19_LoadOnceLastWriterWins ==
    /\ [](/\ \A p \in Procs : SavesFromLoaded(p)
          /\ store.state.tag \in {"Stopped", "Working", "Break", "WaitingForNext"})
    /\ [][\A p \in Procs :
              JustSaved(p) => store' = calls'[p][Len(calls'[p])].arg[1]]_vars

\* The same driver ran `next` from two checkouts on the same loaded session;
\* one saved Break, the other WaitingForNext, and the later save is persisted
C19_Witness ==
    \E p, q \in Procs : \E i \in CallIdx(p), j \in CallIdx(q) :
        /\ p # q
        /\ Loaded(p) /\ Loaded(q)
        /\ Sess(p) = Sess(q)
        /\ Me(p) = Me(q)
        /\ calls[p][i].op = "save" /\ calls[p][i].ret.ok
        /\ calls[q][j].op = "save" /\ calls[q][j].ret.ok
        /\ calls[p][i].arg[1].state.tag = "Break"
        /\ calls[q][j].arg[1].state.tag = "WaitingForNext"
        /\ store = calls[q][j].arg[1]
        /\ store # Sess(p)

====
